---------------------------- MODULE Spec2Model ----------------------------
(***************************************************************************)
(* A model of the in-memory RESP key/value server: the streaming frame     *)
(* codec (src/resp), the connection handler (src/connection.rs), the       *)
(* store (src/server/types.rs) and the expiry scheduler (src/server.rs).   *)
(*                                                                         *)
(* Bytes are the integers 0..255, byte strings are sequences of bytes.     *)
(* Rust indexes from 0 and TLA+ sequences from 1: At and Slice translate.  *)
(***************************************************************************)
EXTENDS Integers, Sequences, FiniteSets, TLC

VARIABLES
    \* ---- the codec over one connection's read buffer
    sent,       \* the RESP values whose encodings the peer writes (history)
    wire,       \* bytes written by the peer that have not arrived yet
    buf,        \* Framed's read buffer (the BytesMut handed to decode)
    readable,   \* Framed's is_readable flag: decode before reading more
    frames,     \* the frames the decoder has produced so far, in order
    last,       \* the last decode call: its input buffer and its result
    \* ---- the server
    now,        \* the monotonic clock (Instant::now()), in milliseconds
    db,         \* the string store: key -> Value {value, expiration}
    chan,       \* the bounded mpsc channel of expiry events
    heap,       \* the scheduler's expiry_queue
    expirer,    \* the scheduler task: its position and its local `now`
    inbox,      \* per connection: the results frame.next() still has to yield
    conn,       \* per connection: the handler's position and locals
    replies,    \* per connection: the replies handed to the writer, in order
    lists,      \* the list store: key -> Vec<Value>
    guards      \* the store lock guard each task keeps alive at its suspension point

codecVars  == <<sent, wire, buf, readable, frames, last>>
serverVars == <<now, db, chan, heap, expirer, inbox, conn, replies, lists, guards>>
vars       == <<sent, wire, buf, readable, frames, last,
                now, db, chan, heap, expirer, inbox, conn, replies, lists, guards>>

---------------------------------------------------------------------------
(* Bytes *)

CR == 13
LF == 10
PLUS == 43
MINUS == 45
COLON == 58
DOLLAR == 36
STAR == 42
ZERO == 48

CRLF == <<CR, LF>>

At(input, i) == input[i + 1]
Slice(input, a, b) == SubSeq(input, a + 1, b)

RECURSIVE Concat(_)
Concat(seqs) == IF seqs = <<>> THEN <<>> ELSE Head(seqs) \o Concat(Tail(seqs))

SeqsUpTo(S, n) == UNION {[1..k -> S] : k \in 0..n}

IsPrefix(p, s) == Len(p) <= Len(s) /\ SubSeq(s, 1, Len(p)) = p

---------------------------------------------------------------------------
(* Signed 64-bit integers.  An i64 is kept as its sign and its decimal     *)
(* magnitude (digits 0..9, most significant first, no leading zero; the    *)
(* empty magnitude is 0), so that lengths beyond 2^32 and the limits of    *)
(* i64 are represented exactly.                                            *)

I64MaxMag == <<9,2,2,3,3,7,2,0,3,6,8,5,4,7,7,5,8,0,7>>
I64MinMag == <<9,2,2,3,3,7,2,0,3,6,8,5,4,7,7,5,8,0,8>>
U32MaxMag == <<4,2,9,4,9,6,7,2,9,5>>

RECURSIVE LexLess(_, _)
LexLess(a, b) ==
    IF a = <<>> \/ b = <<>> THEN FALSE
    ELSE IF Head(a) # Head(b) THEN Head(a) < Head(b)
    ELSE LexLess(Tail(a), Tail(b))

MagLess(a, b) == Len(a) < Len(b) \/ (Len(a) = Len(b) /\ LexLess(a, b))

RECURSIVE StripZeros(_)
StripZeros(ds) ==
    IF ds # <<>> /\ Head(ds) = 0 THEN StripZeros(Tail(ds)) ELSE ds

RECURSIVE NatDigits(_)
NatDigits(n) == IF n < 10 THEN <<n>> ELSE Append(NatDigits(n \div 10), n % 10)

RECURSIVE MagToNat(_)
MagToNat(ds) ==
    IF ds = <<>> THEN 0 ELSE 10 * MagToNat(SubSeq(ds, 1, Len(ds) - 1)) + ds[Len(ds)]

I64Of(n) ==
    IF n = 0 THEN [neg |-> FALSE, mag |-> <<>>]
    ELSE IF n < 0 THEN [neg |-> TRUE, mag |-> NatDigits(-n)]
    ELSE [neg |-> FALSE, mag |-> NatDigits(n)]

DigitBytes(ds) == [i \in 1..Len(ds) |-> ZERO + ds[i]]

\* i64::to_string
i64_to_string(v) ==
    (IF v.neg THEN <<MINUS>> ELSE <<>>)
        \o (IF v.mag = <<>> THEN <<ZERO>> ELSE DigitBytes(v.mag))

\* usize::to_string
usize_to_string(n) == DigitBytes(NatDigits(n))

\* str::from_utf8 succeeds: ASCII and two-byte sequences (the byte alphabet
\* of the model holds no lead byte of a longer sequence).
RECURSIVE from_utf8_ok(_)
from_utf8_ok(bs) ==
    IF bs = <<>> THEN TRUE
    ELSE IF Head(bs) < 128 THEN from_utf8_ok(Tail(bs))
    ELSE IF Head(bs) \in 194..223 /\ Len(bs) >= 2 /\ bs[2] \in 128..191
         THEN from_utf8_ok(Tail(Tail(bs)))
    ELSE FALSE

\* str::parse::<i64>: an optional sign, at least one decimal digit, leading
\* zeros allowed, an error on overflow.
parse_i64(s) ==
    LET signed == s # <<>> /\ Head(s) \in {PLUS, MINUS}
        neg    == s # <<>> /\ Head(s) = MINUS
        digits == IF signed THEN Tail(s) ELSE s
        mag    == StripZeros([i \in 1..Len(digits) |-> digits[i] - ZERO])
    IN  IF digits = <<>> \/ \E i \in 1..Len(digits) : digits[i] \notin ZERO..(ZERO + 9)
        THEN [ok |-> FALSE]
        ELSE IF MagLess(IF neg THEN I64MinMag ELSE I64MaxMag, mag)
        THEN [ok |-> FALSE]
        ELSE [ok |-> TRUE, val |-> [neg |-> neg /\ mag # <<>>, mag |-> mag]]

\* `length as usize` of a non-negative i64, for use against buffer
\* positions: the exact value up to six digits; beyond that a value that is
\* larger than every buffer of the model, as the real one is.
as_usize(v) == IF Len(v.mag) <= 6 THEN MagToNat(v.mag) ELSE 1000000

---------------------------------------------------------------------------
(* RESP values (src/resp.rs) *)

SimpleString(b) == [tag |-> "SimpleString", bytes |-> b]
SimpleError(b)  == [tag |-> "SimpleError", bytes |-> b]
Integer(i)      == [tag |-> "Integer", int |-> i]
BulkString(b)   == [tag |-> "BulkString", bytes |-> b]
Array(vs)       == [tag |-> "Array", elems |-> vs]
NullBulkString  == [tag |-> "NullBulkString"]
NullArray       == [tag |-> "NullArray"]

---------------------------------------------------------------------------
(* Encoder (src/resp/codec.rs) *)

RECURSIVE encode_value(_, _)
RECURSIVE encode_elements(_, _)

RECURSIVE encode_elements_reversed(_, _)
\* mutant: the children are written last to first
encode_elements_reversed(es, dst) ==
    IF es = <<>> THEN dst
    ELSE encode_value(Head(es), encode_elements_reversed(Tail(es), dst))

\* `for element in v { RespFrame::encode_value(element, dst)?; }`
encode_elements(es, dst) ==
    IF es = <<>> THEN dst
    ELSE encode_elements(Tail(es), encode_value(Head(es), dst))

encode_value(item, dst) ==
    CASE item.tag = "NullArray"      -> dst \o <<STAR, MINUS, ZERO + 1>> \o CRLF
      [] item.tag = "NullBulkString" -> dst \o <<DOLLAR, MINUS, ZERO + 1>> \o CRLF
      [] item.tag = "SimpleString"   -> dst \o <<PLUS>> \o item.bytes \o CRLF
      [] item.tag = "SimpleError"    -> dst \o <<MINUS>> \o item.bytes \o CRLF
      [] item.tag = "Integer"        -> dst \o <<COLON>> \o i64_to_string(item.int) \o CRLF
      [] item.tag = "BulkString"     ->
            dst \o <<DOLLAR>> \o usize_to_string(Len(item.bytes)) \o CRLF
                \o item.bytes \o CRLF
      [] item.tag = "Array"          ->
            encode_elements(item.elems,
                dst \o <<STAR>> \o usize_to_string(Len(item.elems)) \o CRLF)

encode(item) == encode_value(item, <<>>)

---------------------------------------------------------------------------
(* Parser (src/resp/parse.rs) *)

ResNone      == [kind |-> "none"]
ResPanic     == [kind |-> "panic"]
ResErr(e)    == [kind |-> "err", err |-> e]
ResSome(p, v) == [kind |-> "some", pos |-> p, val |-> v]

\* memchr::memchr(b, &input[pos..]): the offset of the first b, or -1
memchr(b, input, pos) ==
    IF \A i \in 0..(Len(input) - pos - 1) : At(input, pos + i) # b THEN -1
    ELSE CHOOSE i \in 0..(Len(input) - pos - 1) :
            /\ At(input, pos + i) = b
            /\ \A j \in 0..(i - 1) : At(input, pos + j) # b

\* The closure of parse_word on memchr's result.  `ret + 1 < input.len()`
\* does not count pos, so for pos > 0 the read of input[pos + ret + 1] can
\* lie past the end of the buffer: a panic.
parse_word_found(input, pos, ret) ==
    IF ret + 1 < Len(input)
    THEN IF pos + ret + 1 >= Len(input) THEN ResPanic
         ELSE IF At(input, pos + ret + 1) = LF
              THEN ResSome(pos + ret + 2, <<pos, pos + ret>>)
              ELSE ResNone
    ELSE ResNone

parse_word_memchr(input, pos, ret) ==
    IF ret = -1 THEN ResNone ELSE parse_word_found(input, pos, ret)

parse_word(input, pos) ==
    IF Len(input) <= pos THEN ResNone
    ELSE parse_word_memchr(input, pos, memchr(CR, input, pos))

\* Option::map over parse_word's result
map_word(w, tag) ==
    IF w.kind = "some" THEN ResSome(w.pos, [tag |-> tag, range |-> w.val]) ELSE w

parse_simple_string(input, pos) == map_word(parse_word(input, pos), "SimpleString")

parse_simple_error(input, pos) == map_word(parse_word(input, pos), "SimpleError")

int_parsed(p, r) ==
    IF r.ok THEN ResSome(p, r.val) ELSE ResErr(<<"ParseIntegerError">>)

int_str(p, s) ==
    IF ~from_utf8_ok(s) THEN ResErr(<<"ParseUtf8Error">>)
    ELSE int_parsed(p, parse_i64(s))

int_word(input, w) ==
    IF w.kind # "some" THEN w
    ELSE int_str(w.pos, Slice(input, w.val[1], w.val[2]))

int(input, pos) == int_word(input, parse_word(input, pos))

parse_integer_map(r) ==
    IF r.kind = "some" THEN ResSome(r.pos, [tag |-> "Integer", int |-> r.val]) ELSE r

parse_integer(input, pos) == parse_integer_map(int(input, pos))

\* mutant: the frame ends with the payload, the closing CRLF is not awaited
bulk_string_end_without_crlf(input, p, end) ==
    IF Len(input) < end THEN ResNone
    ELSE ResSome(end, [tag |-> "BulkString", range |-> <<p, end>>])

bulk_string_end(input, p, end) ==
    IF Len(input) < end + 2 THEN ResNone
    ELSE ResSome(end + 2, [tag |-> "BulkString", range |-> <<p, end>>])

\* mutant: no upper bound on the declared length
parse_bulk_string_unbounded(input, r) ==
    IF r.kind # "some" THEN r
    ELSE IF r.val = I64Of(-1) THEN ResSome(r.pos, [tag |-> "NullBulkString"])
    ELSE IF ~r.val.neg
    THEN bulk_string_end(input, r.pos, r.pos + as_usize(r.val))
    ELSE ResErr(<<"InvalidBulkStringLength", r.val>>)

\* the match of parse_bulk_string on int's result
parse_bulk_string_match(input, r) ==
    IF r.kind # "some" THEN r
    ELSE IF r.val = I64Of(-1) THEN ResSome(r.pos, [tag |-> "NullBulkString"])
    ELSE IF ~r.val.neg
    THEN IF MagLess(U32MaxMag, r.val.mag) THEN ResErr(<<"ExceededMaxLength">>)
         ELSE bulk_string_end(input, r.pos, r.pos + as_usize(r.val))
    ELSE ResErr(<<"InvalidBulkStringLength", r.val>>)

parse_bulk_string(input, pos) == parse_bulk_string_match(input, int(input, pos))

RECURSIVE parse(_, _)
RECURSIVE parse_array_loop(_, _, _, _)
RECURSIVE parse_array_child(_, _, _, _)

\* the match on one child's result in the loop of parse_array
parse_array_child(input, left, values, r) ==
    IF r.kind = "some"
    THEN parse_array_loop(input, r.pos, left - 1, Append(values, r.val))
    ELSE r

\* `for _ in 0..length`, with `left` rounds to go
parse_array_loop(input, p, left, values) ==
    IF left = 0 THEN ResSome(p, [tag |-> "Array", elems |-> values])
    ELSE parse_array_child(input, left, values, parse(input, p))

\* A child consumes at least one byte, so a loop of more than Len(input)
\* rounds ends within its first Len(input) + 1 rounds.
parse_array_rounds(input, n) == IF n > Len(input) THEN Len(input) + 1 ELSE n

\* the match of parse_array on int's result
parse_array_match(input, r) ==
    IF r.kind # "some" THEN r
    ELSE IF r.val = I64Of(-1) THEN ResSome(r.pos, [tag |-> "NullArray"])
    ELSE IF ~r.val.neg
    THEN IF MagLess(U32MaxMag, r.val.mag) THEN ResErr(<<"ExceededMaxLength">>)
         ELSE parse_array_loop(input, r.pos,
                               parse_array_rounds(input, as_usize(r.val)), <<>>)
    ELSE ResErr(<<"InvalidArrayLength", r.val>>)

parse_array(input, pos) == parse_array_match(input, int(input, pos))

parse_tag(input, pos, b) ==
    CASE b = PLUS   -> parse_simple_string(input, pos + 1)
      [] b = MINUS  -> parse_simple_error(input, pos + 1)
      [] b = COLON  -> parse_integer(input, pos + 1)
      [] b = DOLLAR -> parse_bulk_string(input, pos + 1)
      [] b = STAR   -> parse_array(input, pos + 1)
      [] OTHER      -> ResErr(<<"InvalidFirstByte">>)

parse(input, pos) ==
    IF input = <<>> THEN ResNone
    ELSE IF Len(input) <= pos THEN ResNone
    ELSE parse_tag(input, pos, At(input, pos))

RECURSIVE generate_value(_, _)
generate_value(inter, buffer) ==
    CASE inter.tag = "SimpleString" ->
            SimpleString(Slice(buffer, inter.range[1], inter.range[2]))
      [] inter.tag = "SimpleError" ->
            SimpleError(Slice(buffer, inter.range[1], inter.range[2]))
      [] inter.tag = "Integer" -> Integer(inter.int)
      [] inter.tag = "NullBulkString" -> NullBulkString
      [] inter.tag = "BulkString" ->
            BulkString(Slice(buffer, inter.range[1], inter.range[2]))
      [] inter.tag = "NullArray" -> NullArray
      [] inter.tag = "Array" ->
            Array([i \in 1..Len(inter.elems) |-> generate_value(inter.elems[i], buffer)])

\* the match of decode on parse's result; `rest` is the buffer it leaves
\* (src.split_to(pos) takes the frame's bytes off its front)
decode_match(src, r) ==
    IF r.kind = "some"
    THEN [kind |-> "some",
          val  |-> generate_value(r.val, SubSeq(src, 1, r.pos)),
          used |-> r.pos,
          rest |-> SubSeq(src, r.pos + 1, Len(src))]
    ELSE IF r.kind = "err"
    THEN [kind |-> "err", err |-> r.err, rest |-> src]
    ELSE [kind |-> r.kind, rest |-> src]

\* RespFrame::decode
decode(src) ==
    IF src = <<>> THEN [kind |-> "none", rest |-> src]
    ELSE decode_match(src, parse(src, 0))

---------------------------------------------------------------------------
(* Bounds and the bounded input sets of the codec *)

MaxLen == 2        \* longest payload of a top-level string value
MaxArr == 2        \* longest array
MaxFrames == 2     \* most frames in one pipelined stream

\* payload octets: CR, LF and the letter a
PayloadBytes == {CR, LF, 97}
Payloads(n) == SeqsUpTo(PayloadBytes, n)

I64Sample ==
    {I64Of(0), I64Of(-1), I64Of(7), I64Of(-12), I64Of(100),
     [neg |-> FALSE, mag |-> I64MaxMag], [neg |-> TRUE, mag |-> I64MinMag]}

Scalars(n) ==
    {SimpleString(b) : b \in Payloads(n)} \cup {SimpleError(b) : b \in Payloads(n)}
        \cup {BulkString(b) : b \in Payloads(n)} \cup {Integer(i) : i \in I64Sample}
        \cup {NullBulkString, NullArray}

ElemValues ==
    {SimpleString(<<97>>), SimpleString(<<CR>>), SimpleError(<<>>),
     Integer(I64Of(-12)), BulkString(<<>>), BulkString(<<CR, LF>>),
     NullBulkString, NullArray, Array(<<>>),
     Array(<<BulkString(<<97>>), Integer(I64Of(7))>>)}

RespValues == Scalars(MaxLen) \cup {Array(es) : es \in SeqsUpTo(ElemValues, MaxArr)}

StreamValues ==
    {SimpleString(<<97>>), Integer(I64Of(100)), BulkString(<<CR, LF>>),
     BulkString(<<>>), NullArray, Array(<<BulkString(<<97>>), Integer(I64Of(7))>>)}

Streams == {vs \in SeqsUpTo(StreamValues, MaxFrames) : Len(vs) >= 2}

\* what the peer writes for a sequence of values
WireOf(vs) == Concat([i \in 1..Len(vs) |-> encode(vs[i])])

\* Length tokens of raw headers: the limits of u32 and of i64, their
\* neighbours, and tokens that are no number.
LenTokens ==
    {i64_to_string(I64Of(n)) : n \in {-12, -2, -1, 0, 1, 3}}
        \cup {DigitBytes(U32MaxMag), DigitBytes(<<4,2,9,4,9,6,7,2,9,6>>),
              DigitBytes(I64MaxMag), DigitBytes(I64MinMag),
              <<MINUS>> \o DigitBytes(I64MinMag),
              <<MINUS>> \o DigitBytes(<<9,2,2,3,3,7,2,0,3,6,8,5,4,7,7,5,8,0,9>>),
              <<PLUS, ZERO + 1>>, <<MINUS, ZERO>>, <<ZERO, ZERO, ZERO + 1>>,
              <<97>>, <<>>, <<255>>}

RawTails == {<<>>, <<97>>, <<97, CR, LF>>, <<CR, LF>>}

RawInputs ==
    {<<t>> \o n \o CRLF \o d : t \in {DOLLAR, STAR}, n \in LenTokens, d \in RawTails}

---------------------------------------------------------------------------
(* The codec driven by Framed (connection.rs, self.frame.next()): bytes    *)
(* arrive in any segmentation; decode runs on the buffer after an arrival  *)
(* and again after every frame it produced, until it asks for more input.  *)

NoDecode == [input |-> <<>>, before |-> 0, res |-> [kind |-> "init", rest |-> <<>>]]

Stopped == last.res.kind \in {"err", "panic"}

Arrive(n) ==
    /\ ~readable /\ ~Stopped
    /\ n \in 1..Len(wire)
    /\ buf' = buf \o SubSeq(wire, 1, n)
    /\ wire' = SubSeq(wire, n + 1, Len(wire))
    /\ readable' = TRUE
    /\ UNCHANGED <<sent, frames, last>>

Decode ==
    /\ readable /\ ~Stopped
    /\ last' = [input |-> buf, before |-> Len(frames), res |-> decode(buf)]
    /\ buf' = last'.res.rest
    /\ frames' = IF last'.res.kind = "some" THEN Append(frames, last'.res.val) ELSE frames
    /\ readable' = (last'.res.kind = "some")
    /\ UNCHANGED <<sent, wire>>

ServerIdle ==
    /\ now = 0 /\ db = <<>> /\ chan = <<>> /\ heap = {}
    /\ expirer = [pc |-> "select", now |-> 0]
    /\ inbox = <<>> /\ conn = <<>> /\ replies = <<>> /\ lists = <<>>
    /\ guards = <<>>

CodecInit ==
    /\ \/ \E v \in RespValues : sent = <<v>> /\ wire = encode(v)
       \/ \E vs \in Streams : sent = vs /\ wire = WireOf(vs)
       \/ \E raw \in RawInputs : sent = <<>> /\ wire = raw
    /\ buf = <<>> /\ readable = FALSE /\ frames = <<>> /\ last = NoDecode
    /\ ServerIdle

CodecNext ==
    \/ \E n \in 1..Len(wire) : Arrive(n) /\ UNCHANGED serverVars
    \/ Decode /\ UNCHANGED serverVars

CodecSpec == CodecInit /\ [][CodecNext]_vars

---------------------------------------------------------------------------
(* The store (src/server/types.rs).  Option<T> is <<>> for None and <<x>>  *)
(* for Some(x).                                                            *)

None == <<>>
Some(x) == <<x>>

\* Value::new
Value_new(value, expiration) == [value |-> value, expiration |-> expiration]

EmptyDb == [k \in {} |-> Value_new(<<>>, None)]

\* mutant: an entry is still valid at the instant of its deadline
expired_after_deadline(v, current) ==
    IF v.expiration # None THEN current > v.expiration[1] ELSE FALSE

\* Value::expired
expired(v, current) ==
    IF v.expiration # None
    THEN IF current >= v.expiration[1] THEN TRUE ELSE FALSE
    ELSE FALSE

\* mutant: an insert without a deadline keeps the deadline of the old entry
db_insert_keep_deadline(d, key, value) ==
    [k \in DOMAIN d \cup {key} |->
        IF k # key THEN d[k]
        ELSE IF key \in DOMAIN d /\ value.expiration = None
        THEN [value |-> value.value, expiration |-> d[key].expiration]
        ELSE value]

\* HashMap::insert / DashMap::insert
db_insert(d, key, value) ==
    [k \in DOMAIN d \cup {key} |-> IF k = key THEN value ELSE d[k]]

\* mutant: the removal of a key clears the map
db_remove_all(d, key) == [k \in {} |-> d[k]]

\* DashMap::remove
db_remove(d, key) == [k \in DOMAIN d \ {key} |-> d[k]]

---------------------------------------------------------------------------
(* The connection handler (src/connection.rs) *)

INITIAL_CAPACITY == 16
SecMillis == 1000

U64MaxMag == <<1,8,4,4,6,7,4,4,0,7,3,7,0,9,5,5,1,6,1,5>>

PING == <<80, 73, 78, 71>>
ECHO == <<69, 67, 72, 79>>
SET  == <<83, 69, 84>>
GET  == <<71, 69, 84>>
PX   == <<80, 88>>
EX   == <<69, 88>>
PONG == <<80, 79, 78, 71>>
OK   == <<79, 75>>
UnsupportedCommand ==
    <<85, 110, 115, 117, 112, 112, 111, 114, 116, 101, 100, 32,
      99, 111, 109, 109, 97, 110, 100>>

NoReply == [tag |-> "NoReply"]

\* str::to_ascii_uppercase
to_ascii_uppercase(str) ==
    [i \in 1..Len(str) |-> IF str[i] \in 97..122 THEN str[i] - 32 ELSE str[i]]

\* str::parse::<u64>: an optional plus sign, at least one decimal digit, an
\* error on overflow.
parse_u64_digits(digits) ==
    IF digits = <<>> \/ \E i \in 1..Len(digits) : digits[i] \notin ZERO..(ZERO + 9)
    THEN [ok |-> FALSE]
    ELSE IF MagLess(U64MaxMag, StripZeros([i \in 1..Len(digits) |-> digits[i] - ZERO]))
    THEN [ok |-> FALSE]
    ELSE [ok |-> TRUE,
          val |-> MagToNat(StripZeros([i \in 1..Len(digits) |-> digits[i] - ZERO]))]

parse_u64(str) ==
    parse_u64_digits(IF str # <<>> /\ Head(str) = PLUS THEN Tail(str) ELSE str)

\* What a call of handle_message does before its first await: the reply it
\* goes on to send (NoReply when it returns without sending) and the entry
\* it wrote to the store (None when it wrote nothing).
Returned == [reply |-> NoReply, write |-> None]
Replied(r) == [reply |-> r, write |-> None]
Stored(key, value) ==
    [reply |-> SimpleString(OK), write |-> Some([key |-> key, value |-> value])]

\* the `match expiry.to_ascii_uppercase().as_str()` of SET
set_deadline(key, value, expiry, time, t) ==
    IF expiry = PX THEN Stored(key, Value_new(value, Some(t + time)))
    ELSE IF expiry = EX THEN Stored(key, Value_new(value, Some(t + SecMillis * time)))
    ELSE Returned

set_duration(key, value, expiry, parsed, t) ==
    IF ~parsed.ok THEN Returned
    ELSE set_deadline(key, value, to_ascii_uppercase(expiry), parsed.val, t)

\* the "SET" arm of handle_cmd, at instant t
handle_set(args, t) ==
    IF Len(args) < 2 THEN Returned
    ELSE IF args[1].tag # "BulkString" THEN Returned
    ELSE IF args[2].tag # "BulkString" THEN Returned
    ELSE IF Len(args) = 4
    THEN IF args[3].tag # "BulkString" THEN Returned
         ELSE IF args[4].tag # "BulkString" THEN Returned
         ELSE set_duration(args[1].bytes, args[2].bytes, args[3].bytes,
                           parse_u64(args[4].bytes), t)
    ELSE Stored(args[1].bytes, Value_new(args[2].bytes, None))

\* the `match db.get(key)` of GET
get_reply(d, key, t) ==
    IF key \in DOMAIN d
    THEN IF expired(d[key], t) THEN NullBulkString ELSE BulkString(d[key].value)
    ELSE NullBulkString

\* the "GET" arm of handle_cmd
handle_get(args, d, t) ==
    IF args = <<>> THEN Returned
    ELSE IF args[1].tag # "BulkString" THEN Returned
    ELSE Replied(get_reply(d, args[1].bytes, t))

\* mutant: PONG sent as a bulk string
handle_cmd_bulk_pong(cmd, args, d, t) ==
    CASE cmd = PING -> Replied(BulkString(PONG))
      [] cmd = ECHO -> IF args = <<>> THEN Returned ELSE Replied(args[1])
      [] cmd = SET  -> handle_set(args, t)
      [] cmd = GET  -> handle_get(args, d, t)
      [] OTHER      -> Replied(SimpleError(UnsupportedCommand))

handle_cmd(cmd, args, d, t) ==
    CASE cmd = PING -> Replied(SimpleString(PONG))
      [] cmd = ECHO -> IF args = <<>> THEN Returned ELSE Replied(args[1])
      [] cmd = SET  -> handle_set(args, t)
      [] cmd = GET  -> handle_get(args, d, t)
      [] OTHER      -> Replied(SimpleError(UnsupportedCommand))

handle_message(message, d, t) ==
    IF message.tag # "Array" THEN Returned
    ELSE IF message.elems = <<>> THEN Returned
    ELSE IF message.elems[1].tag # "BulkString" THEN Returned
    ELSE handle_cmd(to_ascii_uppercase(message.elems[1].bytes),
                    Tail(message.elems), d, t)

---------------------------------------------------------------------------
(* The command parser (src/command.rs) and the list store *)

RPUSH == <<82, 80, 85, 83, 72>>

\* str::to_uppercase: ASCII letters, and the one non-ASCII letter of the
\* model's inputs whose upper case is ASCII (U+017F, bytes C5 BF, gives S)
RECURSIVE to_uppercase(_)
to_uppercase(str) ==
    IF str = <<>> THEN <<>>
    ELSE IF Head(str) \in 97..122
    THEN <<Head(str) - 32>> \o to_uppercase(Tail(str))
    ELSE IF Len(str) >= 2 /\ Head(str) = 197 /\ str[2] = 191
    THEN <<83>> \o to_uppercase(Tail(Tail(str)))
    ELSE <<Head(str)>> \o to_uppercase(Tail(str))

CmdErr == [ok |-> FALSE]
CmdOk(v) == [ok |-> TRUE, val |-> v]

\* TryFrom<&RedisValue> for String
try_into_String(value) ==
    IF value.tag = "BulkString" /\ from_utf8_ok(value.bytes)
    THEN CmdOk(to_uppercase(value.bytes))
    ELSE CmdErr

\* TryFrom<&RedisValue> for Bytes
try_into_Bytes(value) ==
    IF value.tag = "BulkString" THEN CmdOk(value.bytes) ELSE CmdErr

\* RedisCommand::expect_bulk_string; index counts from 0
expect_bulk_string(values, index) ==
    IF index < Len(values) /\ values[index + 1].tag = "BulkString"
    THEN CmdOk(values[index + 1].bytes)
    ELSE CmdErr

\* process_time: the duration in milliseconds; unit is 1 for from_millis
\* and SecMillis for from_secs
process_time_parsed(parsed, unit) ==
    IF parsed.ok THEN CmdOk(unit * parsed.val) ELSE CmdErr

process_time_str(dur_str, unit) ==
    IF dur_str.ok THEN process_time_parsed(parse_u64(dur_str.val), unit) ELSE CmdErr

process_time(dur, unit) == process_time_str(try_into_String(dur), unit)

RECURSIVE set_options(_, _)
RECURSIVE set_option_time(_, _)
RECURSIVE set_option_arg(_, _, _)

\* the arm "PX" / "EX": rest.next() is the duration, then the loop goes on
set_option_time(rest, time) ==
    IF time.ok THEN set_options(Tail(rest), Some(time.val)) ELSE CmdErr

\* `match arg.as_str()`; rest is what follows the option word
set_option_arg(arg, rest, expiration) ==
    IF ~arg.ok THEN CmdErr
    ELSE IF arg.val = PX
    THEN IF rest = <<>> THEN CmdErr
         ELSE set_option_time(rest, process_time(Head(rest), 1))
    ELSE IF arg.val = EX
    THEN IF rest = <<>> THEN CmdErr
         ELSE set_option_time(rest, process_time(Head(rest), SecMillis))
    ELSE CmdErr

\* `while let Some(v) = rest.next()` of the "SET" arm
set_options(rest, expiration) ==
    IF rest = <<>> THEN CmdOk(expiration)
    ELSE set_option_arg(try_into_String(Head(rest)), Tail(rest), expiration)

Ping == [tag |-> "Ping"]
Echo(msg) == [tag |-> "Echo", msg |-> msg]
Get(key) == [tag |-> "Get", key |-> key]
Set(key, value, expiration) ==
    [tag |-> "Set", key |-> key, value |-> value, expiration |-> expiration]
RPush(list_name, elements) ==
    [tag |-> "RPush", list_name |-> list_name, elements |-> elements]

parse_echo(msg) == IF msg.ok THEN CmdOk(Echo(msg.val)) ELSE CmdErr

parse_get(key) == IF key.ok THEN CmdOk(Get(key.val)) ELSE CmdErr

parse_set_options(key, value, expiration) ==
    IF expiration.ok THEN CmdOk(Set(key, value, expiration.val)) ELSE CmdErr

\* the "SET" arm: values[1] and values[2] are bulk strings, so values[3..]
\* is in range
parse_set(values, key, value) ==
    IF ~key.ok \/ ~value.ok THEN CmdErr
    ELSE parse_set_options(key.val, value.val,
                           set_options(SubSeq(values, 4, Len(values)), None))

\* the "RPUSH" arm: values[2..] collected as Bytes, possibly none
parse_rpush(values, list_name) ==
    IF ~list_name.ok THEN CmdErr
    ELSE IF \E i \in 3..Len(values) : ~try_into_Bytes(values[i]).ok THEN CmdErr
    ELSE CmdOk(RPush(list_name.val,
                     [i \in 1..(Len(values) - 2) |-> values[i + 2].bytes]))

\* `match cmd.as_str()`
parse_cmd(cmd, values) ==
    CASE cmd = PING  -> CmdOk(Ping)
      [] cmd = ECHO  -> parse_echo(expect_bulk_string(values, 1))
      [] cmd = GET   -> parse_get(expect_bulk_string(values, 1))
      [] cmd = SET   -> parse_set(values, expect_bulk_string(values, 1),
                                  expect_bulk_string(values, 2))
      [] cmd = RPUSH -> parse_rpush(values, expect_bulk_string(values, 1))
      [] OTHER       -> CmdErr

\* RedisCommand::parse
RedisCommand_parse(msg) ==
    IF msg.tag # "Array" THEN CmdErr
    ELSE IF msg.elems = <<>> THEN CmdErr
    ELSE IF msg.elems[1].tag # "BulkString" THEN CmdErr
    ELSE IF ~from_utf8_ok(msg.elems[1].bytes) THEN CmdErr
    ELSE parse_cmd(to_uppercase(msg.elems[1].bytes), msg.elems)

EmptyLists == <<>>

\* mutant: the elements replace the list instead of extending it
rpush_replace(ls, key, value) ==
    [k \in DOMAIN ls \cup {key} |-> IF k = key THEN value ELSE ls[k]]

\* Database::rpush: entry(key).or_insert(empty), extend; the entry guard
\* holds the shard lock from lookup to return.  The result is the map; the
\* length returned is Len of its list at key.
rpush(ls, key, value) ==
    [k \in DOMAIN ls \cup {key} |->
        IF k = key
        THEN (IF key \in DOMAIN ls THEN ls[key] ELSE <<>>) \o value
        ELSE ls[k]]

---------------------------------------------------------------------------
(* Bounds and inputs of the server *)

NumConns == 2      \* connections
MaxPipeline == 2   \* requests pipelined on one connection
MaxMs == 1         \* the clock visits milliseconds 0..MaxMs and the one-second mark

Conns == 1..NumConns

Instants == (0..MaxMs) \cup {SecMillis}

KeyK == <<107>>
KeyJ == <<106>>
ValV == <<118>>
ValW == <<119>>

Request(words) == Array([i \in 1..Len(words) |-> BulkString(words[i])])

\* frame.next() yields Ok(message) or Err(decode error)
FrameOk(message) == [ok |-> TRUE, msg |-> message]
FrameErr == [ok |-> FALSE]

SetPlain == Request(<<SET, KeyK, ValV>>)
SetShort == Request(<<SET, KeyK, ValV, PX, <<ZERO + 1>>>>)
SetLong  == Request(<<<<115, 101, 116>>, KeyK, ValW, <<101, 120>>, <<ZERO + 1>>>>)
SetOther == Request(<<SET, KeyJ, ValV, PX, <<ZERO + 2>>>>)
GetK     == Request(<<GET, KeyK>>)

\* RPUSH requests; the list key has the name of the string key k
RPushAB    == Request(<<RPUSH, KeyK, <<97>>, <<98>>>>)
RPushC     == Request(<<<<114, 112, 117, 115, 104>>, KeyK, <<99>>>>)
RPushEmpty == Request(<<RPUSH, KeyK>>)
RPushNoKey == Request(<<RPUSH>>)
RPushInt   == Array(<<BulkString(RPUSH), BulkString(KeyK), Integer(I64Of(7))>>)
\* the name spelt with U+017F (LATIN SMALL LETTER LONG S, bytes C5 BF)
RPushLongS == Request(<<<<114, 112, 117, 197, 191, 104>>, KeyK, <<99>>>>)

ListRequests == {RPushAB, RPushC, RPushEmpty, RPushNoKey, RPushInt, RPushLongS}

StoreRequests == {SetPlain, SetShort, SetOther, GetK, RPushAB, RPushC}

ValidRequests ==
    {Request(<<PING>>), Request(<<<<112, 105, 110, 103>>>>),
     Request(<<ECHO, ValV>>), GetK, SetPlain, SetShort, SetLong}

InvalidRequests ==
    {SimpleString(PING),                                \* not an Array
     Array(<<>>), Array(<<Integer(I64Of(7))>>),          \* no bulk string first
     Request(<<<<70, 79, 79>>>>),                        \* unsupported name
     Request(<<ECHO>>), Request(<<GET>>),                \* missing argument
     Request(<<SET, KeyK>>),                             \* fewer than two
     Array(<<BulkString(SET), Integer(I64Of(7)), BulkString(ValV)>>),
     Request(<<SET, KeyK, ValV, PX, <<97>>>>)}       \* unparsable duration

OtherRequests ==
    {Request(<<SET, KeyK, ValV, <<90, 90>>, <<ZERO + 1>>>>),   \* unknown option
     Request(<<SET, KeyK, ValV, PX>>),                         \* no duration
     Array(<<BulkString(GET), Integer(I64Of(7))>>)}

DispatchItems ==
    {FrameOk(m) : m \in ValidRequests \cup InvalidRequests \cup OtherRequests
                            \cup ListRequests}
        \cup {FrameErr}

\* every connection sends one request on the store
StoreScripts == {[c \in Conns |-> <<FrameOk(f[c])>>] : f \in [Conns -> StoreRequests]}

\* connection 1 pipelines up to MaxPipeline requests of any kind
DispatchScripts ==
    {[c \in Conns |-> IF c = 1 THEN s ELSE <<>>] :
        s \in SeqsUpTo(DispatchItems, MaxPipeline)}

---------------------------------------------------------------------------
(* The connection tasks.  One action runs a task from one await to the     *)
(* next: frame.next().await, the channel send, frame.send(reply).await.    *)

\* one connection sends one more SET with a TTL than the channel has slots
BurstScript ==
    [c \in Conns |-> IF c = 1 THEN [i \in 1..(INITIAL_CAPACITY + 1) |-> FrameOk(SetShort)]
                     ELSE <<>>]

ConnStart == [pc |-> "next", taken |-> 0, event |-> None, out |-> NoReply]

SetConn(c, pc, taken, event, out) ==
    conn' = [conn EXCEPT ![c] = [pc |-> pc, taken |-> taken, event |-> event, out |-> out]]

\* the tasks that share the store: the connection handlers and the scheduler
Scheduler == 0
Tasks == Conns \cup {Scheduler}

\* a write access (RwLock::write, a DashMap shard's write lock) is granted
\* when no other task keeps a guard alive
can_write(t) == \A u \in Tasks \ {t} : guards[u] = "none"

\* mutant: the write guard of the SET arm lives until after the reply is sent
Handled_guard_kept(c, eff) ==
    /\ eff.write # None => can_write(c)
    /\ db' = IF eff.write = None THEN db
             ELSE db_insert(db, eff.write[1].key, eff.write[1].value)
    /\ guards' = [guards EXCEPT ![c] = IF eff.write # None THEN "write" ELSE "none"]
    /\ SetConn(c,
               IF eff.write # None /\ eff.write[1].value.expiration # None
               THEN "event"
               ELSE IF eff.reply # NoReply THEN "reply" ELSE "next",
               conn[c].taken + 1,
               IF eff.write # None /\ eff.write[1].value.expiration # None
               THEN Some(<<eff.write[1].value.expiration[1], eff.write[1].key>>)
               ELSE None,
               eff.reply)

\* mutant: the write of a SET with a TTL is not followed by an event
Handled_no_event(c, eff) ==
    /\ eff.write # None => can_write(c)
    /\ db' = IF eff.write = None THEN db
             ELSE db_insert(db, eff.write[1].key, eff.write[1].value)
    /\ guards' = [guards EXCEPT ![c] = "none"]
    /\ SetConn(c, IF eff.reply # NoReply THEN "reply" ELSE "next",
               conn[c].taken + 1, None, eff.reply)

\* the continuation of client_loop on Ok(message), up to the next await;
\* the block that holds the store's guard ends before the reply is sent
Handled(c, eff) ==
    /\ eff.write # None => can_write(c)
    /\ db' = IF eff.write = None THEN db
             ELSE db_insert(db, eff.write[1].key, eff.write[1].value)
    /\ guards' = [guards EXCEPT ![c] = "none"]
    /\ SetConn(c,
               IF eff.write # None /\ eff.write[1].value.expiration # None
               THEN "event"
               ELSE IF eff.reply # NoReply THEN "reply" ELSE "next",
               conn[c].taken + 1,
               IF eff.write # None /\ eff.write[1].value.expiration # None
               THEN Some(<<eff.write[1].value.expiration[1], eff.write[1].key>>)
               ELSE None,
               eff.reply)

\* the item is a request that the command match sends to its "RPUSH" arm
IsRPush(item) ==
    /\ item.ok /\ item.msg.tag = "Array" /\ item.msg.elems # <<>>
    /\ item.msg.elems[1].tag = "BulkString"
    /\ from_utf8_ok(item.msg.elems[1].bytes)
    /\ to_uppercase(item.msg.elems[1].bytes) = RPUSH

\* client_loop: frame.next() yields the next item; Err breaks the loop.
\* The arms of handle_cmd serve every request but RPUSH, whose arm is
\* RPushDispatch.
Dispatch(c) ==
    /\ conn[c].pc = "next"
    /\ conn[c].taken < Len(inbox[c])
    /\ ~IsRPush(inbox[c][conn[c].taken + 1])
    /\ IF inbox[c][conn[c].taken + 1].ok
       THEN Handled(c, handle_message(inbox[c][conn[c].taken + 1].msg, db, now))
       ELSE /\ SetConn(c, "closed", conn[c].taken + 1, None, NoReply)
            /\ db' = db /\ guards' = guards
    /\ UNCHANGED <<now, chan, heap, expirer, inbox, replies, lists>>

ParseError == <<69, 82, 82>>

\* the elements of an RPUSH as the Values handed to Database::rpush
ListValues(elements) == [i \in 1..Len(elements) |-> Value_new(elements[i], None)]

\* the RPUSH command: RedisCommand::parse, then Database::rpush and the
\* reply Integer(new length); a parse error is answered with a SimpleError
RPushParsed(c, r) ==
    IF r.ok
    THEN /\ lists' = rpush(lists, r.val.list_name, ListValues(r.val.elements))
         /\ SetConn(c, "reply", conn[c].taken + 1, None,
                    Integer(I64Of(Len(lists'[r.val.list_name]))))
    ELSE /\ lists' = lists
         /\ SetConn(c, "reply", conn[c].taken + 1, None, SimpleError(ParseError))

RPushDispatch(c) ==
    /\ conn[c].pc = "next"
    /\ conn[c].taken < Len(inbox[c])
    /\ IsRPush(inbox[c][conn[c].taken + 1])
    /\ RPushParsed(c, RedisCommand_parse(inbox[c][conn[c].taken + 1].msg))
    /\ UNCHANGED <<now, db, chan, heap, expirer, inbox, replies, guards>>

\* the send of the expiry event (deadline, key) after a SET with a TTL; a
\* full channel suspends the sender
SendEvent(c) ==
    /\ conn[c].pc = "event"
    /\ Len(chan) < INITIAL_CAPACITY
    /\ chan' = Append(chan, conn[c].event[1])
    /\ SetConn(c, "reply", conn[c].taken, None, conn[c].out)
    /\ UNCHANGED <<now, db, heap, expirer, inbox, replies, lists, guards>>

\* self.frame.send(reply).await
SendReply(c) ==
    /\ conn[c].pc = "reply"
    /\ replies' = [replies EXCEPT
                    ![c] = Append(@, [req |-> conn[c].taken, val |-> conn[c].out])]
    /\ SetConn(c, "next", conn[c].taken, None, NoReply)
    /\ UNCHANGED <<now, db, chan, heap, expirer, inbox, lists, guards>>

---------------------------------------------------------------------------
(* The expiry scheduler (src/server.rs, key_expirer) *)

RECURSIVE bytes_lt(_, _)
bytes_lt(a, b) ==
    IF b = <<>> THEN FALSE
    ELSE IF a = <<>> THEN TRUE
    ELSE IF Head(a) # Head(b) THEN Head(a) < Head(b)
    ELSE bytes_lt(Tail(a), Tail(b))

\* the order of (Instant, RedisKey)
event_lt(e, f) == e[1] < f[1] \/ (e[1] = f[1] /\ bytes_lt(e[2], f[2]))

\* mutant: a max-heap, the latest entry is at the top
peek_latest(h) == CHOOSE e \in h : \A f \in h : e = f \/ event_lt(f, e)

\* BinaryHeap<Reverse<_>>::peek on a non-empty queue
peek(h) == CHOOSE e \in h : \A f \in h : e = f \/ event_lt(e, f)

\* mutant: the event is pushed and the entries of its key are kept
push_only(h, event) == h \cup {event}

\* expiry_queue.retain(|evt| evt.1 != event.1); expiry_queue.push(event)
retain_push(h, event) == {e \in h : e[2] # event[2]} \cup {event}

\* select!: Some(event) = expiry_rx.recv()
ExpirerRecv ==
    /\ expirer.pc = "select"
    /\ chan # <<>>
    /\ heap' = retain_push(heap, Head(chan))
    /\ chan' = Tail(chan)
    /\ UNCHANGED <<now, db, expirer, inbox, conn, replies, lists, guards>>

\* select!: sleep_until(next_expiry) completes; `let now = Instant::now()`
ExpirerTimer ==
    /\ expirer.pc = "select"
    /\ heap # {}
    /\ peek(heap)[1] <= now
    /\ expirer' = [pc |-> "expire", now |-> now]
    /\ UNCHANGED <<now, db, chan, heap, inbox, conn, replies, lists, guards>>

\* mutant: the expired key is removed from the lists as well
ExpirerPop_unified ==
    /\ expirer.pc = "expire"
    /\ heap # {}
    /\ ~(peek(heap)[1] > expirer.now)
    /\ can_write(Scheduler)
    /\ heap' = heap \ {peek(heap)}
    /\ db' = db_remove(db, peek(heap)[2])
    /\ lists' = db_remove(lists, peek(heap)[2])
    /\ UNCHANGED <<now, chan, expirer, inbox, conn, replies, guards>>

\* one round of the while loop: pop the entry and remove its key
ExpirerPop ==
    /\ expirer.pc = "expire"
    /\ heap # {}
    /\ ~(peek(heap)[1] > expirer.now)
    /\ can_write(Scheduler)
    /\ heap' = heap \ {peek(heap)}
    /\ db' = db_remove(db, peek(heap)[2])
    /\ UNCHANGED <<now, chan, expirer, inbox, conn, replies, lists, guards>>

\* the while loop ends: the queue is empty or its head is in the future
ExpirerBreak ==
    /\ expirer.pc = "expire"
    /\ IF heap = {} THEN TRUE ELSE peek(heap)[1] > expirer.now
    /\ expirer' = [pc |-> "select", now |-> expirer.now]
    /\ UNCHANGED <<now, db, chan, heap, inbox, conn, replies, lists, guards>>

\* the monotonic clock advances
Tick ==
    /\ \E t \in Instants : t > now /\ now' = t
    /\ UNCHANGED <<db, chan, heap, expirer, inbox, conn, replies, lists, guards>>

CodecIdle ==
    /\ sent = <<>> /\ wire = <<>> /\ buf = <<>> /\ readable = FALSE
    /\ frames = <<>> /\ last = NoDecode

Init ==
    /\ now = 0 /\ db = EmptyDb /\ chan = <<>> /\ heap = {}
    /\ expirer = [pc |-> "select", now |-> 0]
    /\ inbox \in StoreScripts \cup DispatchScripts
    /\ conn = [c \in Conns |-> ConnStart]
    /\ replies = [c \in Conns |-> <<>>]
    /\ lists = EmptyLists
    /\ guards = [t \in Tasks |-> "none"]
    /\ CodecIdle

Next ==
    \/ \E c \in Conns : Dispatch(c) /\ UNCHANGED codecVars
    \/ \E c \in Conns : RPushDispatch(c) /\ UNCHANGED codecVars
    \/ \E c \in Conns : SendEvent(c) /\ UNCHANGED codecVars
    \/ \E c \in Conns : SendReply(c) /\ UNCHANGED codecVars
    \/ ExpirerRecv /\ UNCHANGED codecVars
    \/ ExpirerTimer /\ UNCHANGED codecVars
    \/ ExpirerPop /\ UNCHANGED codecVars
    \/ ExpirerBreak /\ UNCHANGED codecVars
    \/ Tick /\ UNCHANGED codecVars

Spec == Init /\ [][Next]_vars

\* The server under load on the channel: the burst, and one request per
\* connection.
BurstScripts ==
    {BurstScript}
        \cup {[c \in Conns |-> <<FrameOk(f[c])>>] :
                  f \in [Conns -> {SetLong, SetOther, RPushAB}]}

BurstInit ==
    /\ now = 0 /\ db = EmptyDb /\ chan = <<>> /\ heap = {}
    /\ expirer = [pc |-> "select", now |-> 0]
    /\ inbox \in BurstScripts
    /\ conn = [c \in Conns |-> ConnStart]
    /\ replies = [c \in Conns |-> <<>>]
    /\ lists = EmptyLists
    /\ guards = [t \in Tasks |-> "none"]
    /\ CodecIdle

BurstSpec == BurstInit /\ [][Next]_vars

\* The scheduler task is scheduled fairly and the clock advances.
ExpirerFair ==
    /\ WF_vars(ExpirerRecv /\ UNCHANGED codecVars)
    /\ WF_vars(ExpirerTimer /\ UNCHANGED codecVars)
    /\ WF_vars(ExpirerPop /\ UNCHANGED codecVars)
    /\ WF_vars(ExpirerBreak /\ UNCHANGED codecVars)
    /\ WF_vars(Tick /\ UNCHANGED codecVars)

\* one request per connection: SETs with and without a TTL, and an RPUSH
LiveScripts ==
    {[c \in Conns |-> <<FrameOk(f[c])>>] :
        f \in [Conns -> {SetPlain, SetShort, SetOther, RPushAB}]}

LiveInit ==
    /\ now = 0 /\ db = EmptyDb /\ chan = <<>> /\ heap = {}
    /\ expirer = [pc |-> "select", now |-> 0]
    /\ inbox \in LiveScripts
    /\ conn = [c \in Conns |-> ConnStart]
    /\ replies = [c \in Conns |-> <<>>]
    /\ lists = EmptyLists
    /\ guards = [t \in Tasks |-> "none"]
    /\ CodecIdle

LiveSpec == LiveInit /\ [][Next]_vars /\ ExpirerFair

---------------------------------------------------------------------------
(* Properties of the server *)

\* the step is one round of the scheduler's while loop
PopStep == expirer.pc = "expire" /\ heap # {} /\ heap' = heap \ {peek(heap)}

\* C1: when the timer branch pops (t, k), k leaves the string store only if
\* the deadline stored for k equals t; a key whose stored deadline differs
\* from t, or that has no deadline, stays in the store.
C1_StaleEventRejection ==
    [][IF PopStep
       THEN IF peek(heap)[2] \in DOMAIN db
            THEN db[peek(heap)[2]].expiration # Some(peek(heap)[1])
                     => peek(heap)[2] \in DOMAIN db'
            ELSE TRUE
       ELSE TRUE]_vars

\* C2: a key stored without a TTL keeps answering GET with its value until
\* the next SET on it, whatever expiry events of earlier SETs are around.
C2_NoTtlNeverReaped ==
    [][\A k \in DOMAIN db :
          db[k].expiration = None
              => \/ get_reply(db', k, now') = BulkString(db[k].value)
                 \/ (k \in DOMAIN db' /\ db'[k] # db[k])]_vars

\* SET k v with the short TTL, then SET k w with the long TTL
RaceScript == [c \in Conns |-> IF c = 1 THEN <<FrameOk(SetShort), FrameOk(SetLong)>>
                                        ELSE <<>>]

\* the store holds k -> w under deadline d2 of the second SET, issued before
\* the first deadline, whose event is still in the scheduler's queue
RaceOpen(d2) ==
    /\ inbox = RaceScript /\ conn[1].taken = 2
    /\ KeyK \in DOMAIN db /\ db[KeyK] = Value_new(ValW, Some(d2))
    /\ \E e \in heap : e[2] = KeyK /\ e[1] # d2 /\ d2 - SecMillis < e[1]

\* C3: after SET k v <short TTL>; SET k w <long TTL> on one connection, k is
\* not removed at the first deadline and GET k returns w until the second
\* deadline, under every interleaving of writes, events and the timer.
C3_ExpiryRace ==
    [][\A d2 \in {t + SecMillis : t \in Instants} :
          (RaceOpen(d2) /\ now' < d2)
              => get_reply(db', KeyK, now') = BulkString(ValW)]_vars

\* connection c dispatches message m in this step
Dispatches(c, m) ==
    /\ conn[c].pc = "next" /\ conn[c].taken < Len(inbox[c])
    /\ inbox[c][conn[c].taken + 1] = FrameOk(m)
    /\ conn'[c].taken = conn[c].taken + 1

\* an entry for key exists and has no deadline or a deadline later than t
Live(d, key, t) ==
    /\ key \in DOMAIN d
    /\ (d[key].expiration = None \/ d[key].expiration[1] > t)

\* C4: GET k returns the stored value iff an entry for k exists and has no
\* deadline or a deadline strictly later than now; otherwise, also for an
\* expired entry the scheduler has not removed, the reply is NullBulkString.
C4_GetHitIffLive ==
    [][\A c \in Conns :
          Dispatches(c, GetK)
              => /\ conn'[c].pc = "reply"
                 /\ conn'[c].out = IF Live(db, KeyK, now)
                                   THEN BulkString(db[KeyK].value)
                                   ELSE NullBulkString]_vars

\* a GET after SET k v <short TTL> found the entry expired and still stored
C4_Witness ==
    /\ inbox[1] = <<FrameOk(SetShort), FrameOk(GetK)>>
    /\ conn[1].taken = 2 /\ conn[1].pc = "reply"
    /\ conn[1].out = NullBulkString
    /\ KeyK \in DOMAIN db /\ db[KeyK].expiration # None
    /\ db[KeyK].expiration[1] <= now

\* every item of the script of c is a well-framed request, valid or invalid
WellFramed(c) ==
    \A i \in 1..Len(inbox[c]) :
        inbox[c][i].ok /\ inbox[c][i].msg \in ValidRequests \cup InvalidRequests

\* connection c is back at frame.next() with all its requests consumed
AllHandled(c) == conn[c].pc = "next" /\ conn[c].taken = Len(inbox[c])

\* C5: n requests sent back-to-back on one connection get exactly n replies,
\* the i-th being the reply to the i-th request, for every mix of valid and
\* invalid requests, and a request is dispatched only after the reply to the
\* previous one was handed to the writer.
C5_Pipelining ==
    \A c \in Conns :
        WellFramed(c) =>
            /\ AllHandled(c) =>
                  /\ Len(replies[c]) = Len(inbox[c])
                  /\ \A i \in 1..Len(replies[c]) : replies[c][i].req = i
            /\ conn[c].pc = "next" => Len(replies[c]) = conn[c].taken

\* C6: every well-framed invalid request is answered with a SimpleError and
\* the connection stays open for the next request.
C6_InvalidGetsSimpleError ==
    \A c \in Conns :
        \A i \in 1..conn[c].taken :
            (inbox[c][i].ok /\ inbox[c][i].msg \in InvalidRequests
                /\ (i < conn[c].taken \/ conn[c].pc = "next"))
                => /\ \E j \in 1..Len(replies[c]) :
                        /\ replies[c][j].req = i
                        /\ replies[c][j].val.tag = "SimpleError"
                   /\ (i = conn[c].taken => conn[c].pc # "closed")

\* the elements of a well-formed RPUSH request, in argument order
ElementsOf(m) == [i \in 1..(Len(m.elems) - 2) |-> m.elems[i + 2].bytes]

\* the list stored for key, empty when there is none
ListAt(ls, key) == IF key \in DOMAIN ls THEN ls[key] ELSE <<>>

Replies(c) == conn[c].pc = "reply" /\ replies'[c] # replies[c]

\* C12: PING is answered with SimpleString PONG, ECHO p with BulkString p,
\* GET k with BulkString value on a hit and NullBulkString on a miss, a
\* successful SET with SimpleString OK; in every state of the store the
\* reply is produced and handed to the writer unchanged.
C12_ReplyMapping ==
    [][\A c \in Conns :
          /\ \A m \in {Request(<<PING>>), Request(<<<<112, 105, 110, 103>>>>)} :
                Dispatches(c, m)
                    => conn'[c].pc = "reply" /\ conn'[c].out = SimpleString(PONG)
          /\ Dispatches(c, Request(<<ECHO, ValV>>))
                => conn'[c].pc = "reply" /\ conn'[c].out = BulkString(ValV)
          /\ Dispatches(c, GetK)
                => /\ conn'[c].pc = "reply"
                   /\ conn'[c].out \in
                         IF Live(db, KeyK, now) THEN {BulkString(db[KeyK].value)}
                         ELSE {NullBulkString}
          /\ \A m \in {SetPlain, SetShort, SetLong, SetOther} :
                Dispatches(c, m)
                    => /\ conn'[c].pc \in {"event", "reply"}
                       /\ conn'[c].out = SimpleString(OK)
          /\ (conn[c].pc = "event" /\ conn'[c] # conn[c])
                => conn'[c].pc = "reply" /\ conn'[c].out = conn[c].out
          /\ Replies(c)
                => replies'[c] = Append(replies[c], [req |-> conn[c].taken,
                                                     val |-> conn[c].out])]_vars

\* SET k v then GET k on one connection were answered OK and v
C12_Witness ==
    /\ inbox[1] = <<FrameOk(SetPlain), FrameOk(GetK)>>
    /\ replies[1] = <<[req |-> 1, val |-> SimpleString(OK)],
                      [req |-> 2, val |-> BulkString(ValV)]>>

\* the requests connection c has consumed so far
Consumed(c) == {inbox[c][i].msg : i \in {j \in 1..conn[c].taken : inbox[c][j].ok}}

\* C13: an RPUSH request with a key but no elements is rejected by the
\* command parser, which never produces an RPush with an empty elements list.
C13_RPushNeedsElements ==
    \A c \in Conns : \A m \in Consumed(c) :
        /\ m = RPushEmpty => ~RedisCommand_parse(m).ok
        /\ (RedisCommand_parse(m).ok /\ RedisCommand_parse(m).val.tag = "RPush")
               => RedisCommand_parse(m).val.elements # <<>>

\* SET requests whose options are not complete (PX|EX, n) pairs: an unknown
\* option word, an option without its duration, an unparsable duration
BadOptionSets ==
    {Request(<<SET, KeyK, ValV, <<90, 90>>, <<ZERO + 1>>>>),
     Request(<<SET, KeyK, ValV, PX>>),
     Request(<<SET, KeyK, ValV, PX, <<97>>>>)}

\* C14: a SET whose arguments after the value are not complete (PX|EX, n)
\* pairs is rejected with an error; the store is left unchanged and no
\* expiry event is emitted.
C14_BadOptionsRejected ==
    [][\A c \in Conns : \A m \in BadOptionSets :
          Dispatches(c, m)
              => /\ ~RedisCommand_parse(m).ok
                 /\ conn'[c].out.tag = "SimpleError"
                 /\ db' = db
                 /\ conn'[c].event = None /\ chan' = chan]_vars

SetRequests == {SetPlain, SetShort, SetLong, SetOther}

\* the key a SET request of the model names
SetKey(m) == IF m = SetOther THEN KeyJ ELSE KeyK

\* the entry a SET request of the model stands for when it executes at t
SetEntry(m, t) ==
    CASE m = SetPlain -> [value |-> ValV, expiration |-> None]
      [] m = SetShort -> [value |-> ValV, expiration |-> Some(t + 1)]
      [] m = SetLong  -> [value |-> ValW, expiration |-> Some(t + SecMillis)]
      [] m = SetOther -> [value |-> ValV, expiration |-> Some(t + 2)]

\* the item is a SET request naming key
IsSetOf(item, key) ==
    /\ item.ok /\ item.msg.tag = "Array" /\ Len(item.msg.elems) >= 2
    /\ item.msg.elems[1].tag = "BulkString"
    /\ to_ascii_uppercase(item.msg.elems[1].bytes) = SET
    /\ item.msg.elems[2] = BulkString(key)

\* some connection takes a SET request naming key off its stream in this step
SetsKey(key) ==
    \E c \in Conns :
        /\ conn[c].pc = "next" /\ conn[c].taken < Len(inbox[c])
        /\ conn'[c].taken = conn[c].taken + 1
        /\ IsSetOf(inbox[c][conn[c].taken + 1], key)

\* C15: a SET replaces the whole entry at once: right after SET k v' the
\* entry of k is the payload and the deadline of that SET (no deadline if it
\* had no TTL), so GET observes only v'; no other step alters an entry, and
\* whatever the interleaving of connections the entry of a key is, payload
\* and deadline together, the entry of one SET.
C15_SetReplacesEntry ==
    [][/\ \A c \in Conns : \A m \in SetRequests :
             Dispatches(c, m)
                 => /\ SetKey(m) \in DOMAIN db'
                    /\ db'[SetKey(m)] = SetEntry(m, now)
                    /\ get_reply(db', SetKey(m), now')
                          \in {BulkString(SetEntry(m, now).value), NullBulkString}
       /\ \A k \in DOMAIN db' :
             /\ (k \in DOMAIN db /\ ~SetsKey(k)) => db'[k] = db[k]
             /\ \E m \in SetRequests : \E t \in Instants :
                   SetKey(m) = k /\ db'[k] = SetEntry(m, t)]_vars

\* two connections SET k at the same time, one with a TTL and one without;
\* the entry is the one without a deadline
C15_Witness ==
    /\ inbox[1] = <<FrameOk(SetShort)>> /\ inbox[2] = <<FrameOk(SetPlain)>>
    /\ conn[1].pc = "event" /\ conn[2].taken = 1
    /\ KeyK \in DOMAIN db /\ db[KeyK] = [value |-> ValV, expiration |-> None]

\* some connection takes an RPUSH request off its stream in this step
RPushStep ==
    \E c \in Conns :
        /\ conn[c].pc = "next" /\ conn[c].taken < Len(inbox[c])
        /\ conn'[c].taken = conn[c].taken + 1
        /\ IsRPush(inbox[c][conn[c].taken + 1])

\* C16: string keys and list keys are separate namespaces: SET, GET, the
\* removal of a key and the expiry scheduler leave every list unchanged, and
\* RPUSH leaves every string entry unchanged, also for one key name.
C16_SeparateNamespaces ==
    [][/\ RPushStep => db' = db
       /\ ~RPushStep => lists' = lists]_vars

\* k is a string key and a list key at once, and both are intact
C16_Witness ==
    /\ inbox[1] = <<FrameOk(SetPlain)>> /\ inbox[2] = <<FrameOk(RPushAB)>>
    /\ KeyK \in DOMAIN db /\ db[KeyK] = [value |-> ValV, expiration |-> None]
    /\ ListAt(lists, KeyK) = ListValues(<<<<97>>, <<98>>>>)

\* C17: when the decoder reports a framing error on a connection, the
\* handler sends a SimpleError reply to the client before it continues or
\* closes.
C17_FramingErrorReplied ==
    \A c \in Conns :
        \A i \in 1..conn[c].taken :
            ~inbox[c][i].ok
                => \E j \in 1..Len(replies[c]) :
                       replies[c][j].req = i /\ replies[c][j].val.tag = "SimpleError"

\* the SET requests with a TTL
TtlSets == {SetShort, SetLong, SetOther}

\* connection c puts its pending event on the channel in this step
Sends(c) ==
    /\ conn[c].pc = "event"
    /\ chan' = Append(chan, conn[c].event[1])

Receives == expirer.pc = "select" /\ chan # <<>> /\ chan' = Tail(chan)

\* C20: when the scheduler receives event (t, k) it removes every heap entry
\* whose key is k and then inserts (t, k); the heap holds at most one entry
\* per key, and that entry carries the deadline of the most recently
\* received event for that key.
C20_HeapRewrite ==
    [][/\ Receives
              => /\ heap' = {e \in heap : e[2] # Head(chan)[2]} \cup {Head(chan)}
                 /\ \A e \in heap' : e[2] = Head(chan)[2] => e[1] = Head(chan)[1]
       /\ ~Receives => heap' \subseteq heap
       /\ \A e \in heap' : \A f \in heap' : e[2] = f[2] => e = f]_vars

\* the entry (1, k) of the first SET was replaced by (1000, k) of the second
\* before any timer could fire
C20_Witness ==
    /\ inbox = RaceScript /\ conn[1].taken = 2 /\ chan = <<>> /\ now = 0
    /\ heap = {<<SecMillis, KeyK>>}

\* no SET of key is still to come: none in a stream, no event of key waits
\* to be sent or received
NoMoreSets(key) ==
    /\ \A c \in Conns :
           /\ \A i \in (conn[c].taken + 1)..Len(inbox[c]) : ~IsSetOf(inbox[c][i], key)
           /\ conn[c].event = None \/ conn[c].event[1][2] # key
    /\ \A i \in 1..Len(chan) : chan[i][2] # key

\* key is stored with a deadline, the event of that deadline is in the
\* heap, and the clock of the model reaches the deadline
Armed(key) ==
    /\ key \in DOMAIN db /\ db[key].expiration # None
    /\ <<db[key].expiration[1], key>> \in heap
    /\ db[key].expiration[1] <= SecMillis
    /\ NoMoreSets(key)

\* a round of the while loop pops the earliest entry, whose deadline is
\* not after the instant the timer branch read; the loop ends when no such
\* entry is left; an armed key leaves the store at or after its deadline
TimerRounds ==
    /\ (expirer.pc = "expire" /\ heap' # heap)
           => \E e \in heap :
                  /\ heap' = heap \ {e}
                  /\ e[1] <= expirer.now /\ expirer.now <= now
                  /\ \A f \in heap : f[1] >= e[1]
    /\ (expirer.pc = "expire" /\ expirer'.pc = "select")
           => \A e \in heap : e[1] > expirer.now
    /\ \A key \in {KeyK, KeyJ} :
           (Armed(key) /\ key \notin DOMAIN db') => db[key].expiration[1] <= now

C22_ReArm ==
    [][\A key \in {KeyK, KeyJ} :
          (key \in DOMAIN db /\ db[key].expiration # None /\ key \notin DOMAIN db')
              => db[key].expiration[1] <= now]_vars

\* the names of the command table, by the command they select
CommandTable == [Ping |-> PING, Echo |-> ECHO, Get |-> GET, Set |-> SET, RPush |-> RPUSH]

\* C25: the command parser accepts a request only if it is an Array whose
\* first element is a bulk string, and it selects command C iff the
\* ASCII-upper-cased name equals C's name in the command table; a name with
\* a non-ASCII character is never recognised, and every other name yields a
\* parse error.
C25_CommandSelection ==
    \A c \in Conns : \A m \in Consumed(c) :
        RedisCommand_parse(m).ok
            => /\ m.tag = "Array" /\ m.elems # <<>> /\ m.elems[1].tag = "BulkString"
               /\ \A i \in 1..Len(m.elems[1].bytes) : m.elems[1].bytes[i] < 128
               /\ to_ascii_uppercase(m.elems[1].bytes)
                      = CommandTable[RedisCommand_parse(m).val.tag]

AllEventsReceived ==
    /\ \A c \in Conns : conn[c].taken = Len(inbox[c]) /\ conn[c].pc \in {"next", "closed"}
    /\ chan = <<>>

\* C27: for any interleaving of SETs with a TTL on one key k by two
\* connections, once all emitted expiry events have been received by the
\* scheduler the heap's entry for k carries the deadline stored for k.
C27_WriterSchedulerAgreement ==
    AllEventsReceived
        => \A key \in DOMAIN db :
               db[key].expiration # None
                   => {e \in heap : e[2] = key} = {<<db[key].expiration[1], key>>}

\* some connection takes a GET request off its stream in this step
GetStep ==
    \E c \in Conns :
        /\ conn[c].pc = "next" /\ conn[c].taken < Len(inbox[c])
        /\ conn'[c].taken = conn[c].taken + 1
        /\ inbox[c][conn[c].taken + 1].ok
        /\ inbox[c][conn[c].taken + 1].msg.tag = "Array"
        /\ inbox[c][conn[c].taken + 1].msg.elems # <<>>
        /\ inbox[c][conn[c].taken + 1].msg.elems[1].tag = "BulkString"
        /\ to_ascii_uppercase(inbox[c][conn[c].taken + 1].msg.elems[1].bytes) = GET

\* the scheduler pops the heap entry of key in this step
PopsKey(key) ==
    /\ expirer.pc = "expire"
    /\ \E e \in heap : e[2] = key /\ heap' = heap \ {e}

\* the step is one of the scheduler
SchedulerStep == expirer' # expirer \/ heap' # heap

\* C28: string entries are removed only by the expiry scheduler: GET never
\* changes the store (a GET that observes an expired entry reports a miss
\* and leaves the entry in the map), SET only inserts or replaces the entry
\* of its own key, and the scheduler only removes keys for which it popped a
\* heap entry and never inserts or alters a value.
C28_OnlySchedulerRemoves ==
    [][/\ \A key \in DOMAIN db : key \notin DOMAIN db' => PopsKey(key)
       /\ \A key \in DOMAIN db' :
              (key \notin DOMAIN db \/ db'[key] # db[key])
                  => SetsKey(key) /\ ~SchedulerStep
       /\ GetStep => db' = db]_vars

\* the GET found the entry of k expired, the miss was replied and the entry
\* is still in the map
C28_Witness ==
    /\ inbox[1] = <<FrameOk(SetShort), FrameOk(GetK)>>
    /\ conn[1].taken = 2 /\ conn[1].pc = "next"
    /\ replies[1] = <<[req |-> 1, val |-> SimpleString(OK)],
                      [req |-> 2, val |-> NullBulkString]>>
    /\ KeyK \in DOMAIN db /\ db[KeyK].expiration = Some(1) /\ now >= 1
    /\ <<1, KeyK>> \in heap

---------------------------------------------------------------------------
(* Properties of the codec *)

\* no simple string or simple error of v, at any depth, holds a CR byte
RECURSIVE NoCRInSimple(_)
NoCRInSimple(v) ==
    CASE v.tag \in {"SimpleString", "SimpleError"} ->
            \A i \in 1..Len(v.bytes) : v.bytes[i] # CR
      [] v.tag = "Array" -> \A i \in 1..Len(v.elems) : NoCRInSimple(v.elems[i])
      [] OTHER -> TRUE

\* the last decode call ran on the first frame's bytes only
FirstFrameCall == Len(sent) = 1 /\ last.res.kind # "init" /\ last.before = 0

RoundTripOK ==
    /\ last.res.kind = "some"
    /\ last.res.val = sent[1]
    /\ last.res.used = Len(encode(sent[1]))

\* C7 as stated: for every RESP value v, payloads being arbitrary octets,
\* decode(encode(v)) yields v and consumes len(encode(v)) bytes.
C7_RoundTripAllValues ==
    (FirstFrameCall /\ last.input = encode(sent[1])) => RoundTripOK

\* C7 amended: the round trip holds for every RESP value whose simple
\* strings and simple errors hold no CR byte (bulk payloads are arbitrary
\* octets, CR and LF included).
C7_RoundTrip ==
    (FirstFrameCall /\ last.input = encode(sent[1]) /\ NoCRInSimple(sent[1]))
        => RoundTripOK

\* a nested array with a bulk payload of CR LF has been decoded from its
\* whole encoding
C7_Witness ==
    /\ FirstFrameCall /\ last.input = encode(sent[1])
    /\ sent[1].tag = "Array" /\ Len(sent[1].elems) = 2
    /\ sent[1].elems[1] = BulkString(<<CR, LF>>)
    /\ sent[1].elems[2].tag = "Array"
    /\ last.res.kind = "some" /\ last.res.val = sent[1]

StrictPrefixCall ==
    /\ FirstFrameCall
    /\ IsPrefix(last.input, encode(sent[1]))
    /\ last.input # encode(sent[1])

\* C8: for every strict prefix p of encode(v), decode(p) is "need more
\* input": neither a value, nor an error, nor an abort.  Stated for the
\* values of C7's round trip.
C8_PrefixNeedsMoreInput ==
    (StrictPrefixCall /\ NoCRInSimple(sent[1])) => last.res.kind = "none"

Quiescent == ~readable /\ (wire = <<>> \/ Stopped) /\ last.res.kind # "init"

\* C9: whatever the segmentation of the bytes of encode(v1)..encode(vk),
\* once all of it was handed to decode the frames produced are exactly
\* v1..vk and the buffer is empty.
C9_Resumable ==
    (Quiescent /\ sent # <<>> /\ \A i \in 1..Len(sent) : NoCRInSimple(sent[i]))
        => (frames = sent /\ buf = <<>>)

\* The header "<tag>LEN\r\n" at the front of a buffer, and the number its
\* LEN token declares (a decimal numeral with an optional minus sign).
HasHeader(input) ==
    /\ Len(input) >= 3
    /\ input[1] \in {DOLLAR, STAR}
    /\ memchr(CR, input, 1) # -1
    /\ memchr(CR, input, 1) + 2 < Len(input)
    /\ At(input, memchr(CR, input, 1) + 2) = LF

HeaderToken(input) == Slice(input, 1, 1 + memchr(CR, input, 1))

TokenDigits(tok) == IF tok # <<>> /\ Head(tok) = MINUS THEN Tail(tok) ELSE tok

IsNumeral(tok) ==
    /\ TokenDigits(tok) # <<>>
    /\ \A i \in 1..Len(TokenDigits(tok)) : TokenDigits(tok)[i] \in ZERO..(ZERO + 9)

DeclaredMag(tok) ==
    StripZeros([i \in 1..Len(TokenDigits(tok)) |-> TokenDigits(tok)[i] - ZERO])

DeclaredNeg(tok) == Head(tok) = MINUS /\ DeclaredMag(tok) # <<>>

InvalidLength(tag) ==
    IF tag = DOLLAR THEN "InvalidBulkStringLength" ELSE "InvalidArrayLength"

NullOf(tag) == IF tag = DOLLAR THEN NullBulkString ELSE NullArray

HeaderCall ==
    /\ last.res.kind # "init" /\ HasHeader(last.input)
    /\ IsNumeral(HeaderToken(last.input))

\* what the claim asks of a header declaring LEN = (neg, mag)
LengthRule(input, res, neg, mag) ==
    /\ (~neg /\ MagLess(U32MaxMag, mag))
            => (res.kind = "err" /\ res.err = <<"ExceededMaxLength">>)
    /\ (neg /\ MagLess(<<1>>, mag))
            => (res.kind = "err"
                /\ res.err = <<InvalidLength(input[1]), [neg |-> TRUE, mag |-> mag]>>)
    /\ (neg /\ mag = <<1>>)
            => (res.kind = "some" /\ res.val = NullOf(input[1])
                /\ res.used = Len(HeaderToken(input)) + 3)

\* C10 as stated: every declared LEN above 2^32-1 gives ExceededMaxLength
\* and every LEN below -1 gives Invalid...Length(LEN).
C10_LengthBoundsAnyLen ==
    HeaderCall => LengthRule(last.input, last.res,
                             DeclaredNeg(HeaderToken(last.input)),
                             DeclaredMag(HeaderToken(last.input)))

FitsI64(neg, mag) == ~MagLess(IF neg THEN I64MinMag ELSE I64MaxMag, mag)

\* C10 amended: the same for every declared LEN that fits a signed 64-bit
\* integer (-2^63 <= LEN <= 2^63-1).
C10_LengthBounds ==
    (HeaderCall /\ FitsI64(DeclaredNeg(HeaderToken(last.input)),
                           DeclaredMag(HeaderToken(last.input))))
        => LengthRule(last.input, last.res,
                      DeclaredNeg(HeaderToken(last.input)),
                      DeclaredMag(HeaderToken(last.input)))

\* "$4294967296\r\n" with no payload byte behind it was rejected
C10_Witness ==
    /\ last.input = <<DOLLAR>> \o DigitBytes(<<4,2,9,4,9,6,7,2,9,6>>) \o CRLF
    /\ last.res.kind = "err" /\ last.res.err = <<"ExceededMaxLength">>

\* the decimal numeral of a natural number, in ASCII
RECURSIVE Numeral(_)
Numeral(n) == IF n < 10 THEN <<48 + n>> ELSE Numeral(n \div 10) \o <<48 + (n % 10)>>

\* the decimal numeral of an i64, in ASCII
SignedNumeral(i) ==
    (IF i.neg THEN <<45>> ELSE <<>>)
        \o (IF i.mag = <<>> THEN <<48>> ELSE [j \in 1..Len(i.mag) |-> 48 + i.mag[j]])

\* the RESP2 wire form of a value
RECURSIVE Grammar(_)
Grammar(v) ==
    CASE v.tag = "SimpleString"   -> <<43>> \o v.bytes \o <<13, 10>>
      [] v.tag = "SimpleError"    -> <<45>> \o v.bytes \o <<13, 10>>
      [] v.tag = "Integer"        -> <<58>> \o SignedNumeral(v.int) \o <<13, 10>>
      [] v.tag = "BulkString"     ->
            <<36>> \o Numeral(Len(v.bytes)) \o <<13, 10>> \o v.bytes \o <<13, 10>>
      [] v.tag = "NullBulkString" -> <<36, 45, 49, 13, 10>>
      [] v.tag = "NullArray"      -> <<42, 45, 49, 13, 10>>
      [] v.tag = "Array"          ->
            <<42>> \o Numeral(Len(v.elems)) \o <<13, 10>>
                \o Concat([j \in 1..Len(v.elems) |-> Grammar(v.elems[j])])

\* the values and the buffer contents of the state
EncodeValues == {sent[i] : i \in 1..Len(sent)} \cup {frames[i] : i \in 1..Len(frames)}
EncodeBuffers == {<<>>, buf, wire, last.input}

\* C19: encode appends to the output buffer exactly the grammar bytes of the
\* value and leaves the bytes already in the buffer unchanged; an empty bulk
\* string is "$0\r\n\r\n", null bulk is "$-1\r\n", null array is "*-1\r\n",
\* and an array is its header followed by the encodings of its children in
\* order.
C19_EncodeGrammar ==
    \A dst \in EncodeBuffers :
        /\ \A v \in EncodeValues : encode_value(v, dst) = dst \o Grammar(v)
        /\ encode_value(BulkString(<<>>), dst) = dst \o <<36, 48, 13, 10, 13, 10>>
        /\ encode_value(NullBulkString, dst) = dst \o <<36, 45, 49, 13, 10>>
        /\ encode_value(NullArray, dst) = dst \o <<42, 45, 49, 13, 10>>

\* an array of two different children was encoded behind bytes that are
\* already in the buffer
C19_Witness ==
    /\ Len(sent) = 2
    /\ sent[2] = Array(<<BulkString(<<97>>), Integer(I64Of(7))>>)
    /\ buf # <<>> /\ wire # <<>>
    /\ encode_value(sent[2], buf)
           = buf \o <<42, 50, 13, 10, 36, 49, 13, 10, 97, 13, 10, 58, 55, 13, 10>>

\* the last call of decode took a value off the buffer: the bytes it removed
\* are the front of its input, what follows them is left in place, and the
\* removed bytes alone decode to the same value
TookOneFrame ==
    /\ last.res.kind = "some"
    /\ last.res.used \in 1..Len(last.input)
    /\ last.res.rest = SubSeq(last.input, last.res.used + 1, Len(last.input))
    /\ decode(SubSeq(last.input, 1, last.res.used)).kind = "some"
    /\ decode(SubSeq(last.input, 1, last.res.used)).val = last.res.val
    /\ decode(SubSeq(last.input, 1, last.res.used)).rest = <<>>

\* the last call of decode asked for more input and left the buffer as it was
NeedsMoreInput == last.res.kind = "none" /\ last.res.rest = last.input

\* C23: decode either returns one complete value and removes exactly that
\* frame's bytes from the front of the buffer, leaving all following bytes
\* in place, or returns "need more input" and leaves the buffer unchanged
\* (or reports a framing error); for an array of which a child frame is
\* incomplete the whole array is "need more input" and no byte is consumed.
C23_DecodeFrameEffect ==
    /\ last.res.kind # "init"
           => TookOneFrame \/ NeedsMoreInput \/ last.res.kind = "err"
    /\ (StrictPrefixCall /\ sent[1].tag = "Array" /\ NoCRInSimple(sent[1]))
           => NeedsMoreInput

\* C24: the decoder returns BulkString(DATA) for a header "$LEN\r\n" only
\* when the LEN payload bytes are immediately followed by the two bytes
\* CR LF; payload bytes followed by two other bytes are never decoded as a
\* complete bulk string.
C24_BulkStringNeedsCRLF ==
    (last.res.kind = "some" /\ last.res.val.tag = "BulkString")
        => /\ last.res.used >= 2
           /\ last.input[last.res.used - 1] = CR
           /\ last.input[last.res.used] = LF

\* every byte range of an intermediate value lies in the parsed bytes
RECURSIVE RangesWithin(_, _)
RangesWithin(inter, p) ==
    CASE inter.tag \in {"SimpleString", "SimpleError", "BulkString"} ->
            inter.range[1] <= inter.range[2] /\ inter.range[2] <= p
      [] inter.tag = "Array" ->
            \A i \in 1..Len(inter.elems) : RangesWithin(inter.elems[i], p)
      [] OTHER -> TRUE

\* C29: the parser is total and stays inside the buffer: parse returns a
\* value, "need more input" or an error without indexing past the end of
\* the buffer, and a value comes with a position p, 0 < p <= len(buffer),
\* and byte ranges (a, b) with a <= b <= p.
C29_ParserTotal ==
    last.res.kind # "init"
        => /\ parse(last.input, 0).kind \in {"some", "none", "err"}
           /\ parse(last.input, 0).kind = "some"
                  => /\ 0 < parse(last.input, 0).pos
                     /\ parse(last.input, 0).pos <= Len(last.input)
                     /\ RangesWithin(parse(last.input, 0).val, parse(last.input, 0).pos)

===========================================================================
